---- MODULE Spec2Model ----
(***************************************************************************)
(* Model of the library REST service: the book and order routers (both in  *)
(* routes/book.route.js), routes/user.route.js and models/order.model.js.  *)
(*                                                                         *)
(* The database is three collections: users, books, orders.  Every route   *)
(* handler is an async function; the database operation behind each await  *)
(* is one atomic step, and the handler code up to the next await (or the   *)
(* response) belongs to that step.  Handlers with one await are one        *)
(* action.  POST /order reads, then writes what it read: it is one action  *)
(* per await, so other requests run between its lookups and its save.      *)
(* GET /orders only reads and is one action.  The store is assumed         *)
(* reachable: a rejected database call (the catch-all 500) is modelled     *)
(* only where the code itself provokes it (the cast of the order's books   *)
(* on save).                                                               *)
(*                                                                         *)
(* Identifiers are well-formed ObjectIds: users and books get 1, 2, ...    *)
(* in creation order and an id is never given twice; a reference to an id  *)
(* not (or no longer) in a collection is a reference that does not         *)
(* resolve.  A user document is kept as its id, a book document as its id  *)
(* and price: the other fields are never read by the order workflow.       *)
(***************************************************************************)
EXTENDS Integers, Sequences, FiniteSets, TLC

\* ---------------------------------------------------------------- bounds
MaxUsers == 1
MaxBooks == 1
MaxOrders == 1

Prices == {50, 60}
\* The references requests carry: every id the service can have given out, and
\* for books one it never gives out; an id not given out yet, or deleted since,
\* is a reference that does not resolve.
UserRefs == 1..MaxUsers
BookRefs == 1..(MaxBooks + 1)
RECURSIVE SeqsUpTo(_, _)
SeqsUpTo(S, n) ==
  IF n = 0 THEN {<<>>}
  ELSE LET shorter == SeqsUpTo(S, n - 1)
       IN  shorter \cup {Append(q, x) : q \in shorter, x \in S}
\* The book lists requests carry: up to three references, so that a list can
\* repeat one reference and name another
BookLists == SeqsUpTo(BookRefs, 3)

VARIABLES
  users,      \* User collection: the ids of the stored users
  nextUser,   \* the id the next registered user gets
  books,      \* Book collection: id -> [id, price]
  nextBook,   \* the id the next added book gets
  orders,     \* Order collection, in insertion order
  po,         \* the POST /order handler in flight (its locals and position)
  last,       \* the last request completed: its inputs and what it sent
  seen        \* history: what the latest GET /orders returned, kept until a
              \* collection is written

vars == <<users, nextUser, books, nextBook, orders, po, last, seen>>

\* -------------------------------------------------------------- documents
Null == [null |-> TRUE]
NoBody == [none |-> TRUE]
Idle == [pc |-> "idle"]

Range(q) == {q[i] : i \in 1..Len(q)}

\* UserModel.findById
FindUserById(id) == IF id \in users THEN [id |-> id] ELSE Null

\* BookModel.findById
FindBookById(id) == IF id \in DOMAIN books THEN books[id] ELSE Null

\* BookModel.find(): the stored books, in id order
AllBooks ==
  LET ids == SelectSeq([i \in 1..(nextBook - 1) |-> i], LAMBDA b : b \in DOMAIN books)
  IN  [i \in 1..Len(ids) |-> books[ids[i]]]

\* BookModel.find({ _id: { $in: refs } }): every stored book whose id is among
\* refs, each once, however often refs names it
FindBooksIn(refs) == SelectSeq(AllBooks, LAMBDA b : b.id \in Range(refs))

\* booksPresent.reduce((total, book) => total + book.price, 0)
RECURSIVE ReducePrice(_)
ReducePrice(found) ==
  IF found = <<>> THEN 0 ELSE found[1].price + ReducePrice(Tail(found))

\* booksPresent.length !== books.length
LengthMismatchMut(found, refs) == Len(found) > Len(refs)
LengthMismatch(found, refs) == Len(found) # Len(refs)

\* The order schema declares books as ONE ObjectId while the handler hands it
\* the request's array: the cast goes through the array's string form, which is
\* an ObjectId only for an array of exactly one id.
CastOk(refs) == Len(refs) = 1
CastBooks(refs) == refs[1]

\* res.status(...).json(...): sent lists every send the handler attempts, and the
\* client gets the first; req is the reference the request named.  History kept
\* with it: again (a GET /orders with an earlier one and no write between the
\* two).
Respond(op, req, sent, message, body) ==
  last' = [seq |-> 1 - last.seq, op |-> op, req |-> req, status |-> sent[1],
           sent |-> sent, message |-> message, body |-> body,
           again |-> (op = "listOrders" /\ seen.valid)]

\* a collection was written / was not
NoSeen == [valid |-> FALSE]
Wrote == seen' = NoSeen
NoWrite == UNCHANGED seen

Init ==
  /\ users = {}
  /\ nextUser = 1
  /\ books = <<>>
  /\ nextBook = 1
  /\ orders = <<>>
  /\ po = Idle
  /\ last = [seq |-> 0, op |-> "none", req |-> 0, status |-> 0,
             sent |-> <<>>, message |-> "", body |-> NoBody, again |-> FALSE]
  /\ seen = NoSeen

\* ------------------------------------------------------------ user routes
\* POST /register
Register ==
  /\ nextUser <= MaxUsers
  /\ users' = users \cup {nextUser}
  /\ nextUser' = nextUser + 1
  /\ Wrote
  /\ Respond("register", 0, <<201>>, "successfully registered", NoBody)
  /\ UNCHANGED <<books, nextBook, orders, po>>

\* ------------------------------------------------------------ book routes
\* GET /books
GetBooks ==
  /\ UNCHANGED <<users, nextUser, books, nextBook, orders, po, seen>>
  /\ Respond("getBooks", 0, <<200>>, "", AllBooks)

\* GET /books/:id
GetBookById(id) ==
  LET book == FindBookById(id)
  IN  /\ UNCHANGED <<users, nextUser, books, nextBook, orders, po, seen>>
      /\ IF book = Null
         THEN \* no return after the 404: the 200 send throws, and so does the
              \* catch block's 500
              Respond("getBookById", id, <<404, 200, 500>>, "Book Not Found", NoBody)
         ELSE Respond("getBookById", id, <<200>>, "", book)

\* POST /books
AddBook(price) ==
  /\ nextBook <= MaxBooks
  /\ books' = books @@ (nextBook :> [id |-> nextBook, price |-> price])
  /\ nextBook' = nextBook + 1
  /\ Wrote
  /\ Respond("addBook", 0, <<201>>, "Book added", books'[nextBook])
  /\ UNCHANGED <<users, nextUser, orders, po>>

\* PATCH /books/:id
PatchBookMut(id, price) ==
  /\ id \in DOMAIN books
  /\ books' = [books EXCEPT ![id].price = price]
  /\ orders' = [i \in 1..Len(orders) |->
                 IF orders[i].books = id
                 THEN [orders[i] EXCEPT !.totalAmount = price] ELSE orders[i]]
  /\ Wrote
  /\ Respond("patchBook", id, <<204>>, "Book Updated", NoBody)
  /\ UNCHANGED <<users, nextUser, nextBook, po>>
PatchBook(id, price) ==
  IF id \in DOMAIN books
  THEN /\ books' = [books EXCEPT ![id].price = price]
       /\ Wrote
       /\ Respond("patchBook", id, <<204>>, "Book Updated", NoBody)
       /\ UNCHANGED <<users, nextUser, nextBook, orders, po>>
  ELSE /\ UNCHANGED <<users, nextUser, books, nextBook, orders, po, seen>>
       /\ Respond("patchBook", id, <<404>>, "Book not found", NoBody)

\* DELETE /books/:id: the result of findByIdAndDelete is not looked at
DeleteBook(id) ==
  /\ books' = [b \in DOMAIN books \ {id} |-> books[b]]
  /\ IF id \in DOMAIN books THEN Wrote ELSE NoWrite
  /\ Respond("deleteBook", id, <<202>>, "Book Deleted", NoBody)
  /\ UNCHANGED <<users, nextUser, nextBook, orders, po>>

\* ----------------------------------------------------------- order routes
\* POST /order, up to the first await: UserModel.findById(user)
PlaceOrderFindUserMut(user, refs) ==
  /\ po.pc = "idle"
  /\ po' = [pc |-> "findBooks", user |-> user, books |-> refs]
  /\ UNCHANGED <<users, nextUser, books, nextBook, orders, last, seen>>
PlaceOrderFindUser(user, refs) ==
  /\ po.pc = "idle"
  /\ UNCHANGED <<users, nextUser, books, nextBook, orders, seen>>
  /\ IF FindUserById(user) = Null
     THEN /\ Respond("placeOrder", user, <<404>>, "User not found", NoBody)
          /\ UNCHANGED po
     ELSE /\ po' = [pc |-> "findBooks", user |-> user, books |-> refs]
          /\ UNCHANGED last

\* POST /order, second await: BookModel.find({ _id: { $in: books } }), the
\* length check, the total and the construction of the order document
PlaceOrderFindBooks ==
  /\ po.pc = "findBooks"
  /\ UNCHANGED <<users, nextUser, books, nextBook, orders, seen>>
  /\ LET booksPresent == FindBooksIn(po.books)
     IN  IF LengthMismatch(booksPresent, po.books)
         THEN /\ Respond("placeOrder", po.user, <<400>>, "Books not found",
                         NoBody)
              /\ po' = Idle
         ELSE /\ po' = [pc |-> "save", user |-> po.user, books |-> po.books,
                        booksPresent |-> booksPresent,
                        totalAmount |-> ReducePrice(booksPresent)]
              /\ UNCHANGED last

\* POST /order, third await: newOrder.save(), then the 201
PlaceOrderSaveMut ==
  /\ po.pc = "save"
  /\ Len(orders) < MaxOrders
  /\ UNCHANGED <<users, nextUser, books, nextBook>>
  /\ po' = Idle
  /\ Wrote
  /\ LET newOrder == [id |-> Len(orders) + 1, user |-> po.user,
                      books |-> IF CastOk(po.books) THEN CastBooks(po.books) ELSE 0,
                      totalAmount |-> po.totalAmount]
     IN  /\ orders' = Append(orders, newOrder)
         /\ IF CastOk(po.books)
            THEN Respond("placeOrder", po.user, <<201>>,
                         "Order placed successfully", newOrder)
            ELSE Respond("placeOrder", po.user, <<500>>,
                         "Order validation failed", NoBody)
PlaceOrderSaveRecheckMut ==
  /\ po.pc = "save"
  /\ CastOk(po.books) => Len(orders) < MaxOrders
  /\ UNCHANGED <<users, nextUser, books, nextBook>>
  /\ po' = Idle
  /\ IF CastOk(po.books) /\ CastBooks(po.books) \in DOMAIN books
     THEN LET newOrder == [id |-> Len(orders) + 1, user |-> po.user,
                           books |-> CastBooks(po.books),
                           totalAmount |-> ReducePrice(FindBooksIn(po.books))]
          IN  /\ orders' = Append(orders, newOrder)
              /\ Wrote
              /\ Respond("placeOrder", po.user, <<201>>,
                         "Order placed successfully", newOrder)
     ELSE /\ UNCHANGED orders
          /\ NoWrite
          /\ Respond("placeOrder", po.user, <<500>>,
                     "Order validation failed", NoBody)
PlaceOrderSave ==
  /\ po.pc = "save"
  /\ CastOk(po.books) => Len(orders) < MaxOrders
  /\ UNCHANGED <<users, nextUser, books, nextBook>>
  /\ po' = Idle
  /\ IF CastOk(po.books)
     THEN LET newOrder == [id |-> Len(orders) + 1, user |-> po.user,
                           books |-> CastBooks(po.books),
                           totalAmount |-> po.totalAmount]
          IN  /\ orders' = Append(orders, newOrder)
              /\ Wrote
              /\ Respond("placeOrder", po.user, <<201>>,
                         "Order placed successfully", newOrder)
     ELSE /\ UNCHANGED orders
          /\ NoWrite
          /\ Respond("placeOrder", po.user, <<500>>,
                     "Order validation failed", NoBody)

\* GET /orders: OrderModel.find(), then for every order
\*   populatedBooking.user = await UserModel.findById(order.user)
\*   populatedBooking.books = await BookModel.findById(order.books)
\* A missing document is null, and nothing dereferences it.
Populate(order) ==
  [order EXCEPT !.user = FindUserById(order.user), !.books = FindBookById(order.books)]
ListOrdersNullMut ==
  LET populatedOrders == [i \in 1..Len(orders) |-> Populate(orders[i])]
  IN  /\ UNCHANGED <<users, nextUser, books, nextBook, orders, po>>
      /\ IF \E i \in 1..Len(orders) : populatedOrders[i].books = Null
         THEN /\ Respond("listOrders", 0, <<500>>, "Cannot read properties of null",
                         NoBody)
              /\ UNCHANGED seen
         ELSE /\ Respond("listOrders", 0, <<200>>, "", populatedOrders)
              /\ seen' = [valid |-> TRUE, body |-> populatedOrders]
ListOrdersLiveMut ==
  LET populatedOrders == [i \in 1..Len(orders) |-> Populate(orders[i])]
  IN  /\ UNCHANGED <<users, nextUser, books, nextBook, po>>
      /\ orders' = [i \in 1..Len(orders) |->
                     IF orders[i].books \in DOMAIN books
                     THEN [orders[i] EXCEPT !.totalAmount = books[orders[i].books].price]
                     ELSE orders[i]]
      /\ Respond("listOrders", 0, <<200>>, "", populatedOrders)
      /\ seen' = [valid |-> TRUE, body |-> populatedOrders]
ListOrders ==
  LET populatedOrders == [i \in 1..Len(orders) |-> Populate(orders[i])]
  IN  /\ UNCHANGED <<users, nextUser, books, nextBook, orders, po>>
      /\ Respond("listOrders", 0, <<200>>, "", populatedOrders)
      /\ seen' = [valid |-> TRUE, body |-> populatedOrders]

\* ------------------------------------------------------------ the service
Next ==
  \/ Register
  \/ GetBooks
  \/ \E id \in BookRefs : GetBookById(id)
  \/ \E price \in Prices : AddBook(price)
  \/ \E id \in BookRefs, price \in Prices : PatchBook(id, price)
  \/ \E id \in BookRefs : DeleteBook(id)
  \/ \E user \in UserRefs, refs \in BookLists : PlaceOrderFindUser(user, refs)
  \/ PlaceOrderFindBooks
  \/ PlaceOrderSave
  \/ ListOrders

Spec == Init /\ [][Next]_vars

NextOrder ==
  \/ Register
  \/ \E price \in Prices : AddBook(price)
  \/ \E id \in BookRefs, price \in Prices : PatchBook(id, price)
  \/ \E id \in BookRefs : DeleteBook(id)
  \/ \E user \in UserRefs, refs \in BookLists : PlaceOrderFindUser(user, refs)
  \/ PlaceOrderFindBooks
  \/ PlaceOrderSave
SpecOrder == Init /\ [][NextOrder]_vars

NextList ==
  \/ NextOrder
  \/ ListOrders
SpecList == Init /\ [][NextList]_vars

\* ------------------------------------------------------------- properties
\* the step completes a request on route op
NewResponse(op) == last'.seq # last.seq /\ last'.op = op

\* the prices of the requested references, once per occurrence, as the lookup
\* found them
RECURSIVE SumByOccurrence(_, _)
SumByOccurrence(refs, found) ==
  IF refs = <<>> THEN 0
  ELSE LET hit == SelectSeq(found, LAMBDA b : b.id = refs[1])
       IN  (IF hit = <<>> THEN 0 ELSE hit[1].price) + SumByOccurrence(Tail(refs), found)

AllResolve(refs) == \A i \in 1..Len(refs) : refs[i] \in DOMAIN books

\* C1: a POST /order whose user exists and whose book references all resolve
\* (a list of at least one reference, repeated references included) passes the
\* book check, and its save answers 201 with totalAmount the sum of the catalog
\* prices counted once per occurrence.
C1_TotalByOccurrence ==
  [][/\ (po.pc = "findBooks" /\ po' # po /\ Len(po.books) >= 1 /\ AllResolve(po.books))
          => po'.pc = "save"
     /\ (po.pc = "save" /\ po' # po /\ Len(po.books) >= 1)
          => /\ NewResponse("placeOrder")
             /\ last'.status = 201
             /\ last'.body.totalAmount = SumByOccurrence(po.books, po.booksPresent)]_vars

C5_OneWrite ==
  [][(po' # po \/ NewResponse("placeOrder"))
       => /\ UNCHANGED <<users, nextUser, books, nextBook>>
          /\ IF NewResponse("placeOrder") /\ last'.status = 201
             THEN orders' = Append(orders, last'.body)
             ELSE orders' = orders]_vars
C5_Witness ==
  /\ last.op = "placeOrder"
  /\ last.status = 201
  /\ orders = <<last.body>>

\* C6: GET /orders always answers 200 with exactly one record per stored order,
\* in store order and with the order's id and totalAmount, its user and book
\* resolved, and null where the reference no longer resolves.
C6_OneRecordPerOrder ==
  last.op = "listOrders" =>
    /\ last.status = 200
    /\ last.sent = <<200>>
    /\ Len(last.body) = Len(orders)
    /\ \A i \in 1..Len(orders) :
         /\ last.body[i].id = orders[i].id
         /\ last.body[i].totalAmount = orders[i].totalAmount
         /\ last.body[i].user = [id |-> orders[i].user]
         /\ IF orders[i].books \in DOMAIN books
            THEN last.body[i].books = books[orders[i].books]
            ELSE last.body[i].books = Null
C6_Witness ==
  /\ last.op = "listOrders"
  /\ last.status = 200
  /\ Len(last.body) = Len(orders)
  /\ \E i \in 1..Len(last.body) :
       /\ orders[i].books \notin DOMAIN books
       /\ last.body[i].books = Null

\* C7: GET /orders writes no collection, and returns what the GET /orders
\* before it returned when no collection was written between the two.
C7_ListingIdempotent ==
  [][NewResponse("listOrders")
       => /\ UNCHANGED <<users, nextUser, books, nextBook, orders>>
          /\ seen.valid => (last'.status = 200 /\ last'.body = seen.body)]_vars
C7_Witness ==
  /\ last.op = "listOrders"
  /\ last.again
  /\ Len(last.body) >= 1
  /\ last.body = seen.body

\* C8: DELETE /books/:id answers 404 "Book not found" and leaves the catalog as
\* it is when no book has that id, and answers 202 only when it removed one.
C8_DeleteNotFound ==
  [][NewResponse("deleteBook")
       => IF last'.req \in DOMAIN books
          THEN /\ last'.status = 202
               /\ DOMAIN books' = DOMAIN books \ {last'.req}
          ELSE /\ last'.status = 404
               /\ last'.message = "Book not found"
               /\ books' = books]_vars

\* C9: the save of POST /order writes what the book lookup found, without
\* reading the catalog again: the stored totalAmount is the sum of the prices
\* the lookup returned, whatever the catalog holds at the save.
C9_SaveWritesSnapshot ==
  [][(po.pc = "save" /\ NewResponse("placeOrder") /\ last'.status = 201)
       => /\ last'.body.totalAmount = ReducePrice(po.booksPresent)
          /\ last'.body.books = po.booksPresent[1].id
          /\ orders' = Append(orders, last'.body)]_vars
\* an order just stored whose book is gone from the catalog, or priced
\* otherwise than the order's totalAmount says
C9_Witness ==
  /\ last.op = "placeOrder"
  /\ last.status = 201
  /\ orders # <<>>
  /\ orders[Len(orders)] = last.body
  /\ \/ last.body.books \notin DOMAIN books
     \/ books[last.body.books].price # last.body.totalAmount

\* C10: every completed request made exactly one send.
C10_OneResponse == last.op # "none" => Len(last.sent) = 1

====
